---- MODULE Spec2Model ----
(***************************************************************************)
(* git-pull-requests (src/main.rs): walk a commit range, keep the merge    *)
(* commits, extract a PullRequestInfo from each merge message, apply the   *)
(* skip/abort policy and print one markdown line per retained record.      *)
(*                                                                         *)
(* Text is a sequence of one-character strings.  The element "U+0663"      *)
(* stands for the single character ARABIC-INDIC DIGIT THREE, a decimal     *)
(* digit (\p{Nd}) that is not an ASCII digit.  The character "\r" is not   *)
(* part of any input drawn here.                                           *)
(***************************************************************************)
EXTENDS Integers, Sequences, FiniteSets

VARIABLES
    pc,             \* position of main: "setup", "walk", "decide", "print", "done"
    skip_invalid,   \* args.flag_skip_invalid
    config,         \* Config { repo_name, omit_author } (output_format is Markdown)
    walked,         \* number of commits the revwalk has yielded so far
    cur,            \* the commit the revwalk yielded last
    merges,         \* the commits that passed the two-parent filter, in order
    calls,          \* number of calls of PullRequestInfo::from_commit
    any_errors,     \* main's any_errors
    pull_requests,  \* main's Vec<PullRequestInfo>
    printed,        \* number of records the output loop has consumed
    stdout,         \* lines written by println!
    stderr,         \* diagnostics written by the logger
    decisions,      \* number of times the abort/skip decision was taken
    exit_status,    \* -1 while main runs, then the process exit status
    sample,         \* single-commit run: the pieces the message is built from
    xpc,            \* single-commit run: "off", "input", "extracted", "formatted"
    result,         \* single-commit run: the Result of from_commit
    line            \* single-commit run: the String returned by format

vars == <<pc, skip_invalid, config, walked, cur, merges, calls, any_errors,
          pull_requests, printed, stdout, stderr, decisions, exit_status,
          sample, xpc, result, line>>

mainVars == <<pc, skip_invalid, walked, cur, merges, calls, any_errors,
              pull_requests, printed, stdout, stderr, decisions, exit_status>>

extractVars == <<sample, xpc, result, line>>

(***************************************************************************)
(* Bounds                                                                  *)
(***************************************************************************)
MaxCommits == 3     \* commits the revwalk yields in one run
MaxTail == 4        \* length of the generated text after " from "

(***************************************************************************)
(* Text literals                                                           *)
(***************************************************************************)
MergePrefix == <<"M", "e", "r", "g", "e", " ", "p", "u", "l", "l", " ", "r", "e", "q", "u", "e", "s", "t", " ", "#">>
FromLit == <<" ", "f", "r", "o", "m", " ">>
Bullet == <<" ", "*", " ">>
ByOpen == <<"(", "b", "y", " ">>
ByClose == <<")", " ">>
Dash == <<"-", " ">>

AsciiDigits == {"0", "1", "2", "3", "4", "5", "6", "7", "8", "9"}
NonAsciiDigits == {"U+0663"}
White == {" ", "\t", "\n"}

None == [some |-> FALSE, text |-> <<>>]
Some(t) == [some |-> TRUE, text |-> t]

(***************************************************************************)
(* u32 arithmetic, on two 16-bit limbs                                     *)
(***************************************************************************)
U32Bits == 32
Limb == 2 ^ (U32Bits \div 2)
Radix == 10

Zero32 == [hi |-> 0, lo |-> 0]

\* u32::wrapping_mul(self, 10) in place of checked_mul: never None
wrapping_mul(v) ==
    LET l == v.lo * Radix
        h == v.hi * Radix + (l \div Limb)
    IN  [some |-> TRUE, val |-> [hi |-> h % Limb, lo |-> l % Limb]]

\* u32::checked_mul(self, 10): None on overflow
checked_mul(v) ==
    LET l == v.lo * Radix
        h == v.hi * Radix + (l \div Limb)
    IN  IF h >= Limb THEN [some |-> FALSE, val |-> Zero32]
        ELSE [some |-> TRUE, val |-> [hi |-> h, lo |-> l % Limb]]

\* u32::checked_add(self, d) for a digit d: None on overflow
checked_add(v, d) ==
    LET l == v.lo + d
        h == v.hi + (l \div Limb)
    IN  IF h >= Limb THEN [some |-> FALSE, val |-> Zero32]
        ELSE [some |-> TRUE, val |-> [hi |-> h, lo |-> l % Limb]]

DigitChars == <<"0", "1", "2", "3", "4", "5", "6", "7", "8", "9">>

\* char::to_digit(10): only the ASCII digits have a value
to_digit(c) ==
    IF c \in AsciiDigits
    THEN [some |-> TRUE, val |-> (CHOOSE d \in 0..9 : DigitChars[d + 1] = c)]
    ELSE [some |-> FALSE, val |-> 0]

RECURSIVE parse_from(_, _, _)
parse_from(s, i, acc) ==
    IF i > Len(s) THEN [ok |-> TRUE, id |-> acc, err |-> "none"]
    ELSE LET d == to_digit(s[i]) IN
         IF ~d.some THEN [ok |-> FALSE, id |-> Zero32, err |-> "invalid digit"]
         ELSE LET m == checked_mul(acc) IN
              IF ~m.some THEN [ok |-> FALSE, id |-> Zero32, err |-> "overflow"]
              ELSE LET a == checked_add(m.val, d.val) IN
                   IF ~a.some THEN [ok |-> FALSE, id |-> Zero32, err |-> "overflow"]
                   ELSE parse_from(s, i + 1, a.val)

\* str::parse::<u32>()
parse(s) ==
    IF s = <<>> THEN [ok |-> FALSE, id |-> Zero32, err |-> "empty"]
    ELSE parse_from(s, 1, Zero32)

\* the decimal text of a u32, as "{}" writes it
RECURSIVE decimal_from(_)
decimal_from(v) ==
    IF v = Zero32 THEN <<>>
    ELSE LET t == (v.hi % Radix) * Limb + v.lo
             q == [hi |-> v.hi \div Radix, lo |-> t \div Radix]
         IN  Append(decimal_from(q), DigitChars[(t % Radix) + 1])

to_string(v) == IF v = Zero32 THEN <<"0">> ELSE decimal_from(v)

(***************************************************************************)
(* str::lines, join, trim                                                  *)
(***************************************************************************)
RECURSIVE split_newline(_)
split_newline(s) ==
    IF \A k \in 1..Len(s) : s[k] # "\n" THEN <<s>>
    ELSE LET n == CHOOSE k \in 1..Len(s) :
                      s[k] = "\n" /\ \A j \in 1..(k - 1) : s[j] # "\n"
         IN  <<SubSeq(s, 1, n - 1)>> \o split_newline(SubSeq(s, n + 1, Len(s)))

\* msg.lines(): the text between newlines; a final empty piece is no line
lines(s) ==
    LET p == split_newline(s)
    IN  IF p[Len(p)] = <<>> THEN SubSeq(p, 1, Len(p) - 1) ELSE p

RECURSIVE join(_)
join(ls) ==
    IF ls = <<>> THEN <<>>
    ELSE IF Len(ls) = 1 THEN ls[1]
    ELSE ls[1] \o <<"\n">> \o join(Tail(ls))

trim(s) ==
    LET keep == {k \in 1..Len(s) : s[k] \notin White}
    IN  IF keep = {} THEN <<>>
        ELSE SubSeq(s, CHOOSE k \in keep : \A j \in keep : k <= j,
                       CHOOSE k \in keep : \A j \in keep : j <= k)

(***************************************************************************)
(* regex!(r"Merge pull request #(\d+) from (.+?)/(.+)")                    *)
(***************************************************************************)
is_digit(c) == c \in AsciiDigits \cup NonAsciiDigits    \* \d
is_dot(c) == c # "\n"                                   \* .

match_lit(h, s, lit) ==
    /\ s + Len(lit) - 1 <= Len(h)
    /\ SubSeq(h, s, s + Len(lit) - 1) = lit

NoMatch == [matched |-> FALSE, id |-> <<>>, author |-> <<>>, branch |-> <<>>]

\* the end of the author capture when the author starts at a: the shortest
\* run of one or more characters that a "/" and one more character follow
author_ends(h, a) ==
    {e \in a..Len(h) :
        /\ \A k \in a..e : is_dot(h[k])
        /\ e + 2 <= Len(h)
        /\ h[e + 1] = "/"
        /\ is_dot(h[e + 2])}

\* the end of the branch capture starting at b: as many characters as match
branch_end(h, b) ==
    CHOOSE e \in b..Len(h) :
        /\ \A k \in b..e : is_dot(h[k])
        /\ (e = Len(h) \/ ~is_dot(h[e + 1]))

\* the ends of the digit capture starting at p from which the rest matches
digit_ends(h, p) ==
    {e \in p..Len(h) :
        /\ \A k \in p..e : is_digit(h[k])
        /\ match_lit(h, e + 1, FromLit)
        /\ author_ends(h, e + 1 + Len(FromLit)) # {}}

\* the pattern with a greedy author, (.+)/(.+): the longest author is taken
match_at_greedy(h, s) ==
    IF ~match_lit(h, s, MergePrefix) THEN NoMatch
    ELSE LET p == s + Len(MergePrefix)
             ds == digit_ends(h, p)
         IN  IF ds = {} THEN NoMatch
             ELSE LET d == CHOOSE e \in ds : \A f \in ds : f <= e
                      a == d + 1 + Len(FromLit)
                      as == author_ends(h, a)
                      e == CHOOSE x \in as : \A y \in as : y <= x
                  IN  [matched |-> TRUE,
                       id |-> SubSeq(h, p, d),
                       author |-> SubSeq(h, a, e),
                       branch |-> SubSeq(h, e + 2, branch_end(h, e + 2))]

\* a match of the whole pattern starting exactly at position s
match_at(h, s) ==
    IF ~match_lit(h, s, MergePrefix) THEN NoMatch
    ELSE LET p == s + Len(MergePrefix)
             ds == digit_ends(h, p)
         IN  IF ds = {} THEN NoMatch
             ELSE LET d == CHOOSE e \in ds : \A f \in ds : f <= e
                      a == d + 1 + Len(FromLit)
                      as == author_ends(h, a)
                      e == CHOOSE x \in as : \A y \in as : x <= y
                  IN  [matched |-> TRUE,
                       id |-> SubSeq(h, p, d),
                       author |-> SubSeq(h, a, e),
                       branch |-> SubSeq(h, e + 2, branch_end(h, e + 2))]

\* the pattern anchored with ^: only a match starting at the first character
captures_anchored(h) == IF h = <<>> THEN NoMatch ELSE match_at(h, 1)

\* header_pattern.captures(&header): the match with the leftmost start
captures(h) ==
    LET starts == {s \in 1..Len(h) : match_at(h, s).matched}
    IN  IF starts = {} THEN NoMatch
        ELSE match_at(h, CHOOSE s \in starts : \A t \in starts : s <= t)

(***************************************************************************)
(* PullRequestInfo::from_commit                                            *)
(***************************************************************************)
NoInfo == [id |-> Zero32, author |-> <<>>, branch |-> <<>>, name |-> <<>>]
Ok(info) == [ok |-> TRUE, pr |-> info, err |-> "none"]
Err(reason) == [ok |-> FALSE, pr |-> NoInfo, err |-> reason]

from_commit(c) ==
    IF ~c.message.some THEN Err("cannot get commit message")
    ELSE LET ls == lines(c.message.text) IN
         IF ls = <<>> THEN Err("has empty message")
         ELSE LET header == ls[1]
                  body == trim(join(Tail(ls)))
                  caps == captures(header)
              IN  IF ~caps.matched THEN Err("invalid pull request header line")
                  ELSE LET id == parse(caps.id) IN
                       IF ~id.ok THEN Err("invalid pull request id")
                       ELSE Ok([id |-> id.id, author |-> caps.author,
                                branch |-> caps.branch, name |-> body])

(***************************************************************************)
(* OutputFormat::format, Markdown                                          *)
(***************************************************************************)
\* format with the omit_author test dropped: the author is always written
format_always_author(info, cfg) ==
    Bullet
    \o (IF cfg.repo_name.some THEN cfg.repo_name.text ELSE <<>>)
    \o <<"#">> \o to_string(info.id) \o <<" ">>
    \o ByOpen \o info.author \o ByClose
    \o Dash \o info.name

format(info, cfg) ==
    Bullet
    \o (IF cfg.repo_name.some THEN cfg.repo_name.text ELSE <<>>)
    \o <<"#">> \o to_string(info.id) \o <<" ">>
    \o (IF ~cfg.omit_author THEN ByOpen \o info.author \o ByClose ELSE <<>>)
    \o Dash \o info.name

(***************************************************************************)
(* Inputs of the single-commit specification: a message is the             *)
(* concatenation pre \o prefix \o num.text \o from \o tail \o body.raw.    *)
(* Every number and body carries the value expected of it, written by hand.*)
(***************************************************************************)
BrokenPrefix == <<"M", "e", "r", "g", "e", " ", "p", "u", "l", "l", " ", "r", "e", "q", "u", "e", "s", "t", " ">>
BrokenFrom == <<" ", "f", "r", "m", " ">>
RevertPre == <<"R", "e", "v", "e", "r", "t", " ", "\"">>
EarlierPre == MergePrefix \o <<"9">> \o FromLit \o <<"c", "/", "d", " ">>
AliceTail == <<"a", "l", "i", "c", "e", "/", "f", "e", "a", "t", "u", "r", "e", "-", "x">>
BobTail == <<"b", "o", "b", "/", "f", "i", "x", "\"">>
LoginTail == <<"a", "/", "f", "e", "a", "t", "u", "r", "e", "/", "l", "o", "g", "i", "n">>
MyRepo == <<"m", "y", "r", "e", "p", "o">>
U32MaxDigits == <<"4", "2", "9", "4", "9", "6", "7", "2", "9", "5">>

Num(t, c, f, h, l) == [text |-> t, canon |-> c, fits |-> f, hi |-> h, lo |-> l]
N7 == Num(<<"7">>, <<"7">>, TRUE, 0, 7)
N42 == Num(<<"4", "2">>, <<"4", "2">>, TRUE, 0, 42)
N007 == Num(<<"0", "0", "7">>, <<"7">>, TRUE, 0, 7)
N65536 == Num(<<"6", "5", "5", "3", "6">>, <<"6", "5", "5", "3", "6">>, TRUE, 1, 0)
NMax == Num(U32MaxDigits, U32MaxDigits, TRUE, 65535, 65535)
NZeroMax == Num(<<"0">> \o U32MaxDigits, U32MaxDigits, TRUE, 65535, 65535)
NOver == Num(<<"4", "2", "9", "4", "9", "6", "7", "2", "9", "6">>, <<>>, FALSE, 0, 0)
NLong == Num(<<"9", "9", "9", "9", "9", "9", "9", "9", "9", "9", "9">>, <<>>, FALSE, 0, 0)
NArabic == Num(<<"U+0663">>, <<"3">>, TRUE, 0, 3)
NEmpty == Num(<<>>, <<>>, FALSE, 0, 0)
Numbers == {N7, N42, N007, N65536, NMax, NZeroMax, NOver, NLong, NArabic}

Body(r, n) == [raw |-> r, name |-> n]
BodyNone == Body(<<>>, <<>>)
BodyNewline == Body(<<"\n">>, <<>>)
BodyTitle == Body(<<"\n", "A", "d", "d", " ", "f", "e", "a", "t", "u", "r", "e", " ", "X">>,
                  <<"A", "d", "d", " ", "f", "e", "a", "t", "u", "r", "e", " ", "X">>)
BodyPadded == Body(<<"\n", "\n", " ", " ", "F", "i", "x", "\t", "b", "u", "g", " ", "\n", "\n">>,
                   <<"F", "i", "x", "\t", "b", "u", "g">>)
BodyTwoLines == Body(<<"\n", "A", "\n", " ", "B", "\n">>, <<"A", "\n", " ", "B">>)
Bodies == {BodyNone, BodyNewline, BodyTitle, BodyPadded, BodyTwoLines}

Pres == {<<>>, RevertPre, MergePrefix, EarlierPre}
TailChars == {"a", "/"}
GenTails == UNION {[1..n -> TailChars] : n \in 0..MaxTail}
CuratedTails == {AliceTail, BobTail, LoginTail}

Pieces(p, x, n, f, t, b) ==
    [absent |-> FALSE, pre |-> p, prefix |-> x, num |-> n, from |-> f,
     tail |-> t, body |-> b]

AbsentSample == [absent |-> TRUE, pre |-> <<>>, prefix |-> <<>>, num |-> NEmpty,
                 from |-> <<>>, tail |-> <<>>, body |-> BodyNone]

Samples ==
    {Pieces(p, MergePrefix, n, FromLit, t, b) :
        p \in Pres, n \in Numbers, t \in CuratedTails, b \in {BodyNone, BodyTitle}}
    \cup
    {Pieces(p, MergePrefix, n, FromLit, t, b) :
        p \in Pres, n \in {N7, N42}, t \in GenTails, b \in Bodies}
    \cup
    {Pieces(p, x[1], x[2], x[3], t, b) :
        p \in Pres,
        x \in {<<BrokenPrefix, N7, FromLit>>, <<MergePrefix, N7, BrokenFrom>>,
               <<MergePrefix, NEmpty, FromLit>>, <<<<>>, NEmpty, <<>>>>},
        t \in {<<>>, AliceTail}, b \in {BodyNone, BodyNewline, BodyTitle}}
    \cup {AbsentSample}

message_of(s) ==
    IF s.absent THEN None
    ELSE Some(s.pre \o s.prefix \o s.num.text \o s.from \o s.tail \o s.body.raw)

Configs == [repo_name : {None, Some(MyRepo)}, omit_author : BOOLEAN]

NoCommit == [parents |-> 0, message |-> None]

mainOff ==
    /\ pc = "off" /\ skip_invalid = FALSE /\ walked = 0 /\ cur = NoCommit
    /\ merges = <<>> /\ calls = 0 /\ any_errors = FALSE /\ pull_requests = <<>>
    /\ printed = 0 /\ stdout = <<>> /\ stderr = <<>> /\ decisions = 0
    /\ exit_status = -1

InitExtract ==
    /\ mainOff
    /\ config \in Configs
    /\ sample \in Samples
    /\ xpc = "input"
    /\ result = Err("none")
    /\ line = <<>>

\* one merge commit handed to PullRequestInfo::from_commit
Extract ==
    /\ xpc = "input"
    /\ result' = from_commit([parents |-> 2, message |-> message_of(sample)])
    /\ xpc' = "extracted"
    /\ UNCHANGED <<mainVars, config, sample, line>>

\* the record of a successful extraction handed to OutputFormat::format
Render ==
    /\ xpc = "extracted"
    /\ result.ok
    /\ line' = format(result.pr, config)
    /\ xpc' = "formatted"
    /\ UNCHANGED <<mainVars, config, sample, result>>

NextExtract == Extract \/ Render

SpecExtract == InitExtract /\ [][NextExtract]_vars

(***************************************************************************)
(* main: the commits the revwalk may yield                                 *)
(***************************************************************************)
GoodOne == Some(MergePrefix \o <<"4", "2">> \o FromLit \o AliceTail
                \o <<"\n", "A", "d", "d", " ", "f", "e", "a", "t", "u", "r", "e", " ", "X">>)
GoodTwo == Some(MergePrefix \o <<"7">> \o FromLit \o <<"b", "o", "b", "/", "f", "i", "x">>)
BadHeader == Some(<<"F", "i", "x", " ", "t", "y", "p", "o">>)
BadId == Some(MergePrefix \o <<"4", "2", "9", "4", "9", "6", "7", "2", "9", "6">>
              \o FromLit \o AliceTail)
GoodMessages == {GoodOne, GoodTwo}
MainMessages == GoodMessages \cup {BadHeader, BadId, None}
ParentCounts == {0, 1, 2, 3}
Commits == [parents : ParentCounts, message : MainMessages]

SetupError == [level |-> "ERROR", text |-> "cannot set up", reason |-> "none"]
ParseWarning(e) == [level |-> "WARN", text |-> "Error parsing commit", reason |-> e]
SkipWarning == [level |-> "WARN", text |-> "Some commits couldn't be parsed, skipping them", reason |-> "none"]
AbortError == [level |-> "ERROR", text |-> "Some commits couldn't be parsed, aborting", reason |-> "none"]

Init ==
    /\ pc = "setup"
    /\ skip_invalid \in BOOLEAN
    /\ config \in Configs
    /\ walked = 0 /\ cur = NoCommit /\ merges = <<>> /\ calls = 0
    /\ any_errors = FALSE /\ pull_requests = <<>> /\ printed = 0
    /\ stdout = <<>> /\ stderr = <<>> /\ decisions = 0 /\ exit_status = -1
    /\ sample = AbsentSample /\ xpc = "off" /\ result = Err("none") /\ line = <<>>

\* current_dir, Repository::discover, revwalk, push_range: each may fail, and
\* try_error! then logs the error and returns from main
Setup ==
    /\ pc = "setup"
    /\ \E ok \in BOOLEAN :
          IF ok
          THEN /\ pc' = "walk"
               /\ UNCHANGED <<stderr, exit_status>>
          ELSE /\ stderr' = Append(stderr, SetupError)
               /\ pc' = "done"
               /\ exit_status' = 0
    /\ UNCHANGED <<skip_invalid, config, walked, cur, merges, calls, any_errors,
                   pull_requests, printed, stdout, decisions, extractVars>>

\* the filter keeps a commit with three or more parents too
is_merge_two_or_more(c) == c.parents >= 2

\* .filter(|c| c.parents().len() == 2)
is_merge(c) == c.parents = 2

\* the pipeline writing each record as soon as it is extracted
WalkStep_streaming ==
    /\ pc = "walk"
    /\ walked < MaxCommits
    /\ \E c \in Commits :
          /\ walked' = walked + 1
          /\ cur' = c
          /\ IF is_merge(c)
             THEN /\ merges' = Append(merges, c)
                  /\ calls' = calls + 1
                  /\ LET r == from_commit(c) IN
                     IF r.ok
                     THEN /\ pull_requests' = Append(pull_requests, r.pr)
                          /\ stdout' = Append(stdout, format(r.pr, config))
                          /\ printed' = printed + 1
                          /\ UNCHANGED <<any_errors, stderr>>
                     ELSE /\ any_errors' = TRUE
                          /\ stderr' = Append(stderr, ParseWarning(r.err))
                          /\ UNCHANGED <<pull_requests, stdout, printed>>
             ELSE UNCHANGED <<merges, calls, pull_requests, any_errors, stderr,
                              stdout, printed>>
    /\ UNCHANGED <<pc, skip_invalid, config, decisions, exit_status, extractVars>>

\* one item pulled through revwalk.map(find_commit).filter(..).map(from_commit)
\* and the filter_map closure of collect()
WalkStep ==
    /\ pc = "walk"
    /\ walked < MaxCommits
    /\ \E c \in Commits :
          /\ walked' = walked + 1
          /\ cur' = c
          /\ IF is_merge(c)
             THEN /\ merges' = Append(merges, c)
                  /\ calls' = calls + 1
                  /\ LET r == from_commit(c) IN
                     IF r.ok
                     THEN /\ pull_requests' = Append(pull_requests, r.pr)
                          /\ UNCHANGED <<any_errors, stderr>>
                     ELSE /\ any_errors' = TRUE
                          /\ stderr' = Append(stderr, ParseWarning(r.err))
                          /\ UNCHANGED pull_requests
             ELSE UNCHANGED <<merges, calls, pull_requests, any_errors, stderr>>
    /\ UNCHANGED <<pc, skip_invalid, config, printed, stdout, decisions,
                   exit_status, extractVars>>

\* the revwalk is exhausted: collect() returns the Vec
WalkEnd ==
    /\ pc = "walk"
    /\ pc' = "decide"
    /\ cur' = NoCommit
    /\ UNCHANGED <<skip_invalid, config, walked, merges, calls, any_errors,
                   pull_requests, printed, stdout, stderr, decisions,
                   exit_status, extractVars>>

\* the decision with the return left out: the error is logged and main goes on
Decide_no_return ==
    /\ pc = "decide"
    /\ decisions' = decisions + 1
    /\ pc' = "print"
    /\ stderr' = IF ~any_errors THEN stderr
                 ELSE IF skip_invalid THEN Append(stderr, SkipWarning)
                 ELSE Append(stderr, AbortError)
    /\ UNCHANGED <<skip_invalid, config, walked, cur, merges, calls, any_errors,
                   pull_requests, printed, stdout, exit_status, extractVars>>

\* the decision ignoring --skip-invalid: any error aborts
Decide_always_abort ==
    /\ pc = "decide"
    /\ decisions' = decisions + 1
    /\ IF any_errors
       THEN /\ stderr' = Append(stderr, AbortError)
            /\ pc' = "done"
            /\ exit_status' = 0
       ELSE /\ pc' = "print"
            /\ UNCHANGED <<stderr, exit_status>>
    /\ UNCHANGED <<skip_invalid, config, walked, cur, merges, calls, any_errors,
                   pull_requests, printed, stdout, extractVars>>

\* if any_errors { if args.flag_skip_invalid { warn } else { error; return } }
Decide ==
    /\ pc = "decide"
    /\ decisions' = decisions + 1
    /\ IF any_errors
       THEN IF skip_invalid
            THEN /\ stderr' = Append(stderr, SkipWarning)
                 /\ pc' = "print"
                 /\ UNCHANGED exit_status
            ELSE /\ stderr' = Append(stderr, AbortError)
                 /\ pc' = "done"
                 /\ exit_status' = 0
       ELSE /\ pc' = "print"
            /\ UNCHANGED <<stderr, exit_status>>
    /\ UNCHANGED <<skip_invalid, config, walked, cur, merges, calls, any_errors,
                   pull_requests, printed, stdout, extractVars>>

\* the output loop walking the Vec from its end
PrintLine_reversed ==
    /\ pc = "print"
    /\ printed < Len(pull_requests)
    /\ stdout' = Append(stdout,
                        format(pull_requests[Len(pull_requests) - printed], config))
    /\ printed' = printed + 1
    /\ UNCHANGED <<pc, skip_invalid, config, walked, cur, merges, calls,
                   any_errors, pull_requests, stderr, decisions, exit_status,
                   extractVars>>

\* one turn of: for pr in pull_requests { println!("{}", format(&pr, &config)) }
PrintLine ==
    /\ pc = "print"
    /\ printed < Len(pull_requests)
    /\ stdout' = Append(stdout, format(pull_requests[printed + 1], config))
    /\ printed' = printed + 1
    /\ UNCHANGED <<pc, skip_invalid, config, walked, cur, merges, calls,
                   any_errors, pull_requests, stderr, decisions, exit_status,
                   extractVars>>

\* the loop is over and main returns
Return ==
    /\ pc = "print"
    /\ printed = Len(pull_requests)
    /\ pc' = "done"
    /\ exit_status' = 0
    /\ UNCHANGED <<skip_invalid, config, walked, cur, merges, calls, any_errors,
                   pull_requests, printed, stdout, stderr, decisions,
                   extractVars>>

Next == Setup \/ WalkStep \/ WalkEnd \/ Decide \/ PrintLine \/ Return

Spec == Init /\ [][Next]_vars

(***************************************************************************)
(* What the commits yielded so far say about the run                       *)
(***************************************************************************)
Fails(c) == c.message \notin GoodMessages
SomeMergeFails == \E i \in 1..Len(merges) : Fails(merges[i])
FailedMerges == {i \in 1..Len(merges) : Fails(merges[i])}
ParseWarnings == {i \in 1..Len(stderr) : stderr[i].text = "Error parsing commit"}
SetupFailed == \E i \in 1..Len(stderr) : stderr[i] = SetupError

\* the line of a good merge message, put together by hand
GoodLine(m, cfg) ==
    Bullet
    \o (IF cfg.repo_name.some THEN MyRepo ELSE <<>>)
    \o (IF m = GoodOne THEN <<"#", "4", "2", " ">> ELSE <<"#", "7", " ">>)
    \o (IF cfg.omit_author THEN <<>>
        ELSE IF m = GoodOne THEN <<"(", "b", "y", " ", "a", "l", "i", "c", "e", ")", " ">>
        ELSE <<"(", "b", "y", " ", "b", "o", "b", ")", " ">>)
    \o <<"-", " ">>
    \o (IF m = GoodOne
        THEN <<"A", "d", "d", " ", "f", "e", "a", "t", "u", "r", "e", " ", "X">>
        ELSE <<>>)

GoodMerges == SelectSeq(merges, LAMBDA c : ~Fails(c))
ExpectedLines == [i \in 1..Len(GoodMerges) |-> GoodLine(GoodMerges[i].message, config)]

(***************************************************************************)
(* C1: when some merge commit of the range fails extraction and            *)
(* skip-invalid is not set, nothing is ever written to standard output,    *)
(* not even for the merge commits that extracted well, and the run ends    *)
(* on the error diagnostic that some commits could not be parsed.          *)
(***************************************************************************)
C1_AbortWritesNothing ==
    (SomeMergeFails /\ ~skip_invalid)
    => /\ stdout = <<>>
       /\ (pc = "done") => (printed = 0 /\ stderr[Len(stderr)] = AbortError)

C1_Witness ==
    /\ pc = "done"
    /\ ~skip_invalid
    /\ Len(merges) = 2
    /\ merges[1].message = GoodOne
    /\ merges[2].message = BadHeader
    /\ Len(pull_requests) = 1
    /\ stdout = <<>>
    /\ stderr[Len(stderr)] = AbortError

(***************************************************************************)
(* C2: when some merge commit fails extraction and skip-invalid is not     *)
(* set, the run ends with a status that reports failure, different from    *)
(* the status 0 of a run that completed successfully.                      *)
(***************************************************************************)
C2_FailureStatus ==
    (pc = "done" /\ SomeMergeFails /\ ~skip_invalid) => exit_status # 0

(***************************************************************************)
(* C3: when some merge commit fails extraction and skip-invalid is set,    *)
(* the run goes on: the skip warning is logged before any output, standard *)
(* output gets one line per merge commit that extracted well, in their     *)
(* original order, none for a failed one, and the run ends successfully.   *)
(***************************************************************************)
C3_SkipKeepsGoodOnes ==
    (SomeMergeFails /\ skip_invalid)
    => /\ stdout = SubSeq(ExpectedLines, 1, printed)
       /\ (stdout # <<>>) => (stderr[Len(stderr)] = SkipWarning)
       /\ (pc = "done")
          => /\ stdout = ExpectedLines
             /\ exit_status = 0
             /\ stderr[Len(stderr)] = SkipWarning
             /\ \A i \in 1..(Len(stderr) - 1) : stderr[i] # SkipWarning

C3_Witness ==
    /\ pc = "done"
    /\ skip_invalid
    /\ Len(merges) = 3
    /\ merges[1].message = GoodOne
    /\ merges[2].message = BadHeader
    /\ merges[3].message = GoodTwo
    /\ Len(stdout) = 2
    /\ exit_status = 0

(***************************************************************************)
(* C4: a commit whose parent count is not 2 changes nothing: whatever its  *)
(* message, it is not handed to the extractor, writes no output line and   *)
(* no diagnostic, and does not set the error mark.                         *)
(***************************************************************************)
C4_NonMergeIgnored ==
    /\ [](/\ \A i \in 1..Len(merges) : merges[i].parents = 2
          /\ calls = Len(merges)
          /\ Len(stdout) + Cardinality(ParseWarnings) <= Len(merges)
          /\ any_errors => Len(merges) > 0)
    /\ [][(walked' = walked + 1 /\ cur'.parents # 2)
          => UNCHANGED <<merges, calls, any_errors, pull_requests, stdout, stderr>>]_vars

C4_Witness ==
    /\ pc = "walk"
    /\ walked >= 2
    /\ cur.parents = 3
    /\ cur.message = BadHeader
    /\ merges = <<>>
    /\ calls = 0
    /\ stdout = <<>>
    /\ stderr = <<>>
    /\ ~any_errors

(***************************************************************************)
(* C5: when no merge commit of the range fails extraction, standard output *)
(* ends up with exactly one line per merge commit, the i-th line being the *)
(* line of the i-th merge commit in the order the commit source yielded    *)
(* them.                                                                   *)
(***************************************************************************)
C5_AllMergesInOrder ==
    (~SomeMergeFails)
    => /\ Len(stdout) = printed
       /\ \A i \in 1..Len(stdout) : stdout[i] = GoodLine(merges[i].message, config)
       /\ (pc = "done" /\ ~SetupFailed) => Len(stdout) = Len(merges)

C5_Witness ==
    /\ pc = "done"
    /\ Len(merges) = 2
    /\ merges[1].message = GoodOne
    /\ merges[2].message = GoodTwo
    /\ config = [repo_name |-> None, omit_author |-> FALSE]
    /\ stdout = << <<" ", "*", " ", "#", "4", "2", " ", "(", "b", "y", " ", "a", "l", "i", "c", "e", ")", " ", "-", " ", "A", "d", "d", " ", "f", "e", "a", "t", "u", "r", "e", " ", "X">>,
                   <<" ", "*", " ", "#", "7", " ", "(", "b", "y", " ", "b", "o", "b", ")", " ", "-", " ">> >>

(***************************************************************************)
(* C9: nothing is written to standard output until the whole range has     *)
(* been classified and extracted.  The abort/skip decision is taken once,  *)
(* after the last commit, from the error mark of the whole batch; once it  *)
(* is taken no commit is processed and no diagnostic is logged any more,   *)
(* so every per-commit warning precedes the first output line.             *)
(***************************************************************************)
C9_OutputAfterBatch ==
    /\ [](/\ decisions <= 1
          /\ (pc \in {"setup", "walk", "decide"}) => (decisions = 0 /\ stdout = <<>>)
          /\ (pc = "done" /\ ~SetupFailed) => decisions = 1
          /\ (decisions = 1)
             => /\ any_errors <=> SomeMergeFails
                /\ calls = Len(merges)
                /\ Cardinality(ParseWarnings) = Cardinality(FailedMerges))
    /\ [][/\ (decisions' # decisions) => (pc = "decide" /\ pc' # "walk")
          /\ (stdout' # stdout) => (pc = "print" /\ decisions = 1)
          /\ (decisions = 1)
             => UNCHANGED <<walked, merges, calls, any_errors, pull_requests, stderr>>]_vars

C9_Witness ==
    /\ pc = "print"
    /\ Len(stdout) = 1
    /\ walked >= 2
    /\ SomeMergeFails
    /\ decisions = 1
    /\ Cardinality(ParseWarnings) = 1

(***************************************************************************)
(* What the pieces of a sample say about its message                       *)
(***************************************************************************)
\* the text after " from " is <A>/<B> with A and B not empty
HasAuthorAndBranch(t) == \E k \in 2..(Len(t) - 1) : t[k] = "/"

\* the "/" that ends the shortest non-empty text followed by "/"
AuthorSlash(t) ==
    CHOOSE k \in 2..Len(t) :
        t[k] = "/" /\ \A j \in 2..(k - 1) : t[j] # "/"

AsciiOnly(n) == \A k \in 1..Len(n.text) : n.text[k] \in AsciiDigits

\* prefix \o num \o from \o tail is an occurrence of the pattern
MainWellFormed(s) ==
    /\ ~s.absent
    /\ s.prefix = MergePrefix
    /\ s.from = FromLit
    /\ s.num.text # <<>>
    /\ HasAuthorAndBranch(s.tail)

\* the pattern occurs somewhere in the first line
OccursSomewhere(s) == ~s.absent /\ (s.pre = EarlierPre \/ MainWellFormed(s))

Extracted == xpc \in {"extracted", "formatted"}

MainFields(s) ==
    [id |-> [hi |-> s.num.hi, lo |-> s.num.lo],
     author |-> SubSeq(s.tail, 1, AuthorSlash(s.tail) - 1),
     branch |-> SubSeq(s.tail, AuthorSlash(s.tail) + 1, Len(s.tail)),
     name |-> s.body.name]

(***************************************************************************)
(* C6: a message whose first line is exactly                               *)
(* "Merge pull request #<N> from <A>/<B>", N a string of the digits 0-9    *)
(* whose value fits the id, extracts successfully with id = N, author =    *)
(* the shortest non-empty text after " from " followed by "/", branch =    *)
(* everything after that "/", and name = the trimmed body ("" when the     *)
(* message is the header line alone).                                      *)
(***************************************************************************)
C6_HeaderFields ==
    (/\ Extracted
     /\ sample.pre = <<>>
     /\ MainWellFormed(sample)
     /\ AsciiOnly(sample.num)
     /\ sample.num.fits)
    => (result.ok /\ result.pr = MainFields(sample))

C6_Witness ==
    /\ xpc = "extracted"
    /\ sample = Pieces(<<>>, MergePrefix, NMax, FromLit, LoginTail, BodyNone)
    /\ result.ok
    /\ result.pr.author = <<"a">>
    /\ result.pr.branch = <<"f", "e", "a", "t", "u", "r", "e", "/", "l", "o", "g", "i", "n">>
    /\ result.pr.name = <<>>

(***************************************************************************)
(* C7: the header matches the pattern and the digit capture is the         *)
(* sample's number (nothing before it in the line completes the pattern).  *)
(***************************************************************************)
CapturesNumber(s) == s.pre \in {<<>>, RevertPre, MergePrefix} /\ MainWellFormed(s)

\* C7 as stated: every captured digit sequence whose value is at most
\* 2^32 - 1 extracts successfully, and every one whose value exceeds it
\* fails with the "invalid pull request id" reason.
C7_AsStated ==
    (Extracted /\ CapturesNumber(sample))
    => IF sample.num.fits
       THEN result.ok /\ result.pr.id = [hi |-> sample.num.hi, lo |-> sample.num.lo]
       ELSE ~result.ok /\ result.err = "invalid pull request id"

\* C7 amended: a captured sequence of the ASCII digits 0-9 extracts
\* successfully, with its value as the id, when the value is at most
\* 2^32 - 1; a captured sequence whose value exceeds 2^32 - 1, or that holds
\* a decimal digit other than 0-9, fails with the "invalid pull request id"
\* reason and yields no record.
C7_AsciiDigitsInRange ==
    (Extracted /\ CapturesNumber(sample))
    => IF sample.num.fits /\ AsciiOnly(sample.num)
       THEN result.ok /\ result.pr.id = [hi |-> sample.num.hi, lo |-> sample.num.lo]
       ELSE ~result.ok /\ result.err = "invalid pull request id"
                       /\ result.pr = NoInfo

C7_Witness ==
    /\ xpc = "extracted"
    /\ sample.num = NOver
    /\ CapturesNumber(sample)
    /\ ~result.ok
    /\ result.err = "invalid pull request id"

(***************************************************************************)
(* C8: the markdown line is " * ", the repository name if configured, "#", *)
(* the id in decimal, a space, "(by <author>) " unless omit_author, "- "   *)
(* and the name, with nothing after it; the branch plays no part.          *)
(***************************************************************************)
ExpectedIdText(s) == IF s.pre = EarlierPre THEN <<"9">> ELSE s.num.canon
ExpectedAuthor(s) == IF s.pre = EarlierPre THEN <<"c">> ELSE MainFields(s).author

ScenarioA == Pieces(<<>>, MergePrefix, N42, FromLit, AliceTail, BodyTitle)
LineA == <<" ", "*", " ", "#", "4", "2", " ", "(", "b", "y", " ", "a", "l", "i", "c", "e", ")", " ", "-", " ", "A", "d", "d", " ", "f", "e", "a", "t", "u", "r", "e", " ", "X">>
LineB == <<" ", "*", " ", "#", "4", "2", " ", "-", " ", "A", "d", "d", " ", "f", "e", "a", "t", "u", "r", "e", " ", "X">>
LineC == <<" ", "*", " ", "m", "y", "r", "e", "p", "o", "#", "4", "2", " ", "(", "b", "y", " ", "a", "l", "i", "c", "e", ")", " ", "-", " ", "A", "d", "d", " ", "f", "e", "a", "t", "u", "r", "e", " ", "X">>

C8_MarkdownLine ==
    (xpc = "formatted")
    => /\ line = Bullet
                 \o (IF config.repo_name.some THEN config.repo_name.text ELSE <<>>)
                 \o <<"#">> \o ExpectedIdText(sample) \o <<" ">>
                 \o (IF config.omit_author THEN <<>>
                     ELSE ByOpen \o ExpectedAuthor(sample) \o ByClose)
                 \o Dash \o sample.body.name
       /\ (sample = ScenarioA /\ config = [repo_name |-> None, omit_author |-> FALSE])
          => line = LineA
       /\ (sample = ScenarioA /\ config = [repo_name |-> None, omit_author |-> TRUE])
          => line = LineB
       /\ (sample = ScenarioA /\ config = [repo_name |-> Some(MyRepo), omit_author |-> FALSE])
          => line = LineC

C8_Witness ==
    /\ xpc = "formatted"
    /\ sample = ScenarioA
    /\ config.omit_author
    /\ ~config.repo_name.some
    /\ line = LineB

(***************************************************************************)
(* C10: the pattern is searched for anywhere in the first line.  Text      *)
(* before the pattern does not make extraction fail: the fields come from  *)
(* the leftmost occurrence and the branch runs to the end of the line.     *)
(* The "invalid pull request header line" failure happens exactly when the *)
(* first line holds no occurrence at all.                                  *)
(***************************************************************************)
C10_Unanchored ==
    Extracted =>
       /\ (result.err = "invalid pull request header line")
          => ~OccursSomewhere(sample)
       /\ (~sample.absent /\ message_of(sample).text # <<>> /\ ~OccursSomewhere(sample))
          => (~result.ok /\ result.err = "invalid pull request header line")
       /\ (/\ sample.pre \in {RevertPre, MergePrefix}
           /\ MainWellFormed(sample)
           /\ AsciiOnly(sample.num)
           /\ sample.num.fits)
          => (result.ok /\ result.pr = MainFields(sample))
       /\ (~sample.absent /\ sample.pre = EarlierPre)
          => /\ result.ok
             /\ result.pr.id = [hi |-> 0, lo |-> 9]
             /\ result.pr.author = <<"c">>
             /\ result.pr.branch = <<"d", " ">> \o sample.prefix \o sample.num.text
                                   \o sample.from \o sample.tail
             /\ result.pr.name = sample.body.name

C10_Witness ==
    /\ xpc = "extracted"
    /\ sample = Pieces(RevertPre, MergePrefix, N7, FromLit, BobTail, BodyNone)
    /\ result.ok
    /\ result.pr.id = [hi |-> 0, lo |-> 7]
    /\ result.pr.author = <<"b", "o", "b">>
    /\ result.pr.branch = <<"f", "i", "x", "\"">>

====
